---- MODULE Spec2Model ----
(***************************************************************************)
(* Model of the behavioural event pipeline of src/js/behavior.js: the      *)
(* BehaviorMonitor class (capture handlers, throttle wrapper, flush        *)
(* scheduler, batch sender, start/stop) together with the page wiring that *)
(* drives it (visibilitychange, beforeunload, logout button).              *)
(*                                                                         *)
(* The browser is modelled as an event loop: every action below is one     *)
(* macrotask (a DOM event, a timer callback, the resumption of an async    *)
(* function after an await on the network) run to completion.  Time is     *)
(* discrete; a timer fires exactly when its remaining time reaches zero.   *)
(***************************************************************************)
EXTENDS Naturals, Sequences, FiniteSets

\* ------------------------------------------------------------- bounds
\* Value of this.batchSize used by the model (the constructor's default is
\* 20, behavior.js:9; the field is scaled down to keep the state space finite).
BatchSizeBound == 2
\* this.batchInterval in ticks (10000 ms in the constructor, behavior.js:10).
batchInterval == 3
\* Throttle limits in ticks (100 ms and 200 ms, behavior.js:25 and :31).
MouseMoveLimit == 1
ScrollLimit == 2
\* Number of DOM events the page dispatches to the capture handlers.
MaxEvents == 2
\* Number of sendBatch calls that reach the network (get past the empty check).
MaxSends == 2
\* Number of logout clicks.
MaxLogout == 1
\* batchSize and number of DOM events of the capture-only runs (SpecCapture).
CaptureBatchSize == 3
CaptureEvents == 4
\* The auth page's timers in ticks: the 100 ms poll for the Supabase client,
\* the 5 s timeout (part_001:163 and :172) and the 60 s session check
\* (part_001:16).
PollPeriod == 1
InitTimeout == 3
SessionPeriod == 4
\* Number of checkSession calls awaiting getSession at the same time.
MaxChecking == 2
\* The delay before login's redirect in ticks (500 ms, part_001:94).
LoginDelay == 2
\* Number of login calls, and of logout calls, in progress at the same time.
MaxAuthCalls == 2
\* Number of rows scripts insert through window.supabaseHelper.
MaxHelperRows == 1

\* ------------------------------------------------------------- state
VARIABLES
    keystrokeData,   \* this.keystrokeData
    mouseData,       \* this.mouseData
    scrollData,      \* this.scrollData
    batchSize,       \* this.batchSize
    isMonitoring,    \* this.isMonitoring
    batchTimer,      \* this.batchTimer: a timer handle, Null when null
    inThrottle,      \* the inThrottle closure variable of each throttle wrapper
    timers,          \* the browser's pending timeouts
    inflight,        \* sendBatch calls suspended at an await
    sink,            \* rows of behavior_logs inserted so far
    helperPending,   \* rows of supabaseHelper calls awaiting their insert
    session,         \* what supabase.auth.getSession() currently resolves to
    resumes,         \* logout handlers whose awaited sendBatch has resolved
    nextId,          \* identity of the next DOM event dispatched
    maxEvents,       \* number of DOM events the page dispatches in this run
    logouts,         \* logout clicks so far
    sends,           \* sendBatch calls that have reached the network so far
    captured,        \* history: events accepted into the buffer
    run,             \* history: events captured since a quiet empty buffer
    last,            \* history: the operation that produced this state
    supabaseClient,  \* window.supabaseClient is set
    pageLoaded,      \* window.location.href has not been assigned
    loginPage,       \* authHandler.isLoginPage()
    authSession,     \* what getSession() resolves to for checkSession
    authTimers,      \* pending timeouts and intervals of the auth page
    inits,           \* calls of authHandler.init so far
    visibilityListeners, \* visibilitychange listeners init has registered
    checking,        \* checkSession calls awaiting getSession
    authPending,     \* login and logout calls awaiting the auth client
    errorMessage     \* the page has the #error-message element

\* The state of the auth page (src/unnamed/part_001).
authVars == <<supabaseClient, pageLoaded, loginPage, authSession, authTimers,
              inits, visibilityListeners, checking, authPending,
              errorMessage>>

vars == <<keystrokeData, mouseData, scrollData, batchSize, isMonitoring,
          batchTimer, inThrottle, timers, inflight, sink, helperPending,
          session, resumes, nextId, maxEvents, logouts, sends, captured, run,
          last, supabaseClient, pageLoaded, loginPage, authSession,
          authTimers, inits, visibilityListeners, checking, authPending,
          errorMessage>>

Null == 0
\* The history `run` once something other than a capture has intervened.
Broken == [ok |-> FALSE, events |-> <<>>]
Fresh == [ok |-> TRUE, events |-> <<>>]

KeystrokeTypes == {"keydown", "keyup"}
PointerTypes == {"mousemove", "mousedown", "mouseup", "click"}
ScrollTypes == {"scroll"}
ThrottledTypes == {"mousemove", "scroll"}

\* The program state as one record, so that the methods below are functions
\* from state to state and compose the way their calls do.
World ==
    [keystrokeData |-> keystrokeData, mouseData |-> mouseData,
     scrollData |-> scrollData, batchSize |-> batchSize,
     isMonitoring |-> isMonitoring, batchTimer |-> batchTimer,
     inThrottle |-> inThrottle, timers |-> timers, inflight |-> inflight,
     sink |-> sink, helperPending |-> helperPending, resumes |-> resumes]

Commit(w) ==
    /\ keystrokeData' = w.keystrokeData
    /\ mouseData' = w.mouseData
    /\ scrollData' = w.scrollData
    /\ batchSize' = w.batchSize
    /\ isMonitoring' = w.isMonitoring
    /\ batchTimer' = w.batchTimer
    /\ inThrottle' = w.inThrottle
    /\ timers' = w.timers
    /\ inflight' = w.inflight
    /\ sink' = w.sink
    /\ helperPending' = w.helperPending
    /\ resumes' = w.resumes

\* ------------------------------------------------------------- timers
\* The pending timeouts whose callback is `kind`: "batch" for the idle
\* timer's callback, a throttled event type for a throttle wrapper's.
TimersOf(ts, kind) == {t \in ts : t.kind = kind}

BatchTimers(ts) == TimersOf(ts, "batch")

\* The handle setTimeout returns: one no pending timeout is using.  Handles
\* of the throttle wrappers are never stored, so each kind of callback draws
\* from its own numbering.
FreshTimerId(w, kind) ==
    LET used == {t.id : t \in TimersOf(w.timers, kind)}
    IN  CHOOSE n \in 1..(Cardinality(used) + 1) :
            /\ n \notin used
            /\ \A m \in 1..(n - 1) : m \in used

setTimeout(w, kind, delay) ==
    [w EXCEPT !.timers =
        @ \cup {[id |-> FreshTimerId(w, kind), kind |-> kind, left |-> delay]}]

\* clearTimeout of a handle of the idle timer (the only handles kept).
clearTimeout(w, id) ==
    [w EXCEPT !.timers = {t \in @ : ~(t.kind = "batch" /\ t.id = id)}]

\* Mutant: resetBatchTimer arms a new timer without cancelling the old one.
resetBatchTimerNoClear(w) ==
    [setTimeout(w, "batch", batchInterval)
        EXCEPT !.batchTimer = FreshTimerId(w, "batch")]

\* resetBatchTimer (behavior.js:80-88)
resetBatchTimer(w) ==
    LET c == IF w.batchTimer # Null THEN clearTimeout(w, w.batchTimer) ELSE w
        id == FreshTimerId(c, "batch")
    IN  [setTimeout(c, "batch", batchInterval) EXCEPT !.batchTimer = id]

\* Mutant: startMonitoring sets the flag but does not arm the idle timer.
startMonitoringNoTimer(w) ==
    IF w.isMonitoring THEN w ELSE [w EXCEPT !.isMonitoring = TRUE]

\* Mutant: startMonitoring without its early return: the timer is restarted.
startMonitoringRestarts(w) ==
    resetBatchTimer([w EXCEPT !.isMonitoring = TRUE])

\* startMonitoring (behavior.js:55-63)
startMonitoring(w) ==
    IF w.isMonitoring THEN w
    ELSE resetBatchTimer([w EXCEPT !.isMonitoring = TRUE])

\* Mutant: stopMonitoring also discards what is buffered.
stopMonitoringClearsBuffer(w) ==
    IF ~w.isMonitoring THEN w
    ELSE LET s == [w EXCEPT !.isMonitoring = FALSE, !.keystrokeData = <<>>,
                            !.mouseData = <<>>, !.scrollData = <<>>]
         IN  IF s.batchTimer # Null
             THEN [clearTimeout(s, s.batchTimer) EXCEPT !.batchTimer = Null]
             ELSE s

\* stopMonitoring (behavior.js:66-77)
stopMonitoring(w) ==
    IF ~w.isMonitoring THEN w
    ELSE LET s == [w EXCEPT !.isMonitoring = FALSE]
         IN  IF s.batchTimer # Null
             THEN [clearTimeout(s, s.batchTimer) EXCEPT !.batchTimer = Null]
             ELSE s

\* ------------------------------------------------------------- batch sender
TotalEvents(w) == Len(w.keystrokeData) + Len(w.mouseData) + Len(w.scrollData)

hasData(w) ==
    Len(w.keystrokeData) > 0 \/ Len(w.mouseData) > 0 \/ Len(w.scrollData) > 0

\* The promise returned by sendBatch settles: a logout handler awaiting it
\* (behavior.js:364) is queued to resume; the other callers ignore it.
Settle(w, caller) ==
    IF caller = "logout" THEN [w EXCEPT !.resumes = @ + 1] ELSE w

\* batchData (behavior.js:285-295), with the call's position and whether
\* its caller awaits it (only the logout listener does).
BatchData(w, caller) ==
    [awaited |-> caller = "logout", stage |-> "getSession", userId |-> "",
     keystroke_events |-> w.keystrokeData,
     mouse_events |-> w.mouseData,
     scroll_events |-> w.scrollData]

\* Mutant: the empty check returns without re-arming the idle timer.
sendBatchSkipNoRearm(w, caller) ==
    IF ~w.isMonitoring THEN Settle(w, caller)
    ELSE LET c == IF w.batchTimer # Null
                  THEN [clearTimeout(w, w.batchTimer) EXCEPT !.batchTimer = Null]
                  ELSE w
         IN  IF ~hasData(c)
             THEN Settle(c, caller)
             ELSE [c EXCEPT !.inflight = Append(@, BatchData(c, caller))]

\* Mutant: the caller is resumed as soon as the send is started, as when
\* the call is not awaited.
sendBatchSettlesEarly(w, caller) ==
    IF ~w.isMonitoring THEN Settle(w, caller)
    ELSE LET c == IF w.batchTimer # Null
                  THEN [clearTimeout(w, w.batchTimer) EXCEPT !.batchTimer = Null]
                  ELSE w
         IN  IF ~hasData(c)
             THEN Settle(resetBatchTimer(c), caller)
             ELSE Settle([c EXCEPT !.inflight = Append(@, BatchData(c, caller))],
                         caller)

\* Mutant: sendBatch without the empty check: an empty batch is sent.
sendBatchSendsEmpty(w, caller) ==
    IF ~w.isMonitoring THEN Settle(w, caller)
    ELSE LET c == IF w.batchTimer # Null
                  THEN [clearTimeout(w, w.batchTimer) EXCEPT !.batchTimer = Null]
                  ELSE w
         IN  [c EXCEPT !.inflight = Append(@, BatchData(c, caller))]

\* Mutant: sendBatch without its isMonitoring guard.
sendBatchUnguarded(w, caller) ==
    LET c == IF w.batchTimer # Null
             THEN [clearTimeout(w, w.batchTimer) EXCEPT !.batchTimer = Null]
             ELSE w
    IN  IF ~hasData(c)
        THEN Settle(resetBatchTimer(c), caller)
        ELSE [c EXCEPT !.inflight = Append(@, BatchData(c, caller))]

\* sendBatch up to its first await (behavior.js:265-299)
sendBatch(w, caller) ==
    IF ~w.isMonitoring THEN Settle(w, caller)
    ELSE LET c == IF w.batchTimer # Null
                  THEN [clearTimeout(w, w.batchTimer) EXCEPT !.batchTimer = Null]
                  ELSE w
         IN  IF ~hasData(c)
             THEN Settle(resetBatchTimer(c), caller)
             ELSE [c EXCEPT !.inflight = Append(@, BatchData(c, caller))]

RemoveAt(s, i) == SubSeq(s, 1, i - 1) \o SubSeq(s, i + 1, Len(s))

\* Mutant: sendBatch returns without the finally block's resetBatchTimer.
sendBatchFinallyNoRearm(w, i) ==
    Settle([w EXCEPT !.inflight = RemoveAt(@, i)],
           IF w.inflight[i].awaited THEN "logout" ELSE "listener")

\* catch and finally of sendBatch (behavior.js:329-335): call i returns.
sendBatchFinally(w, i) ==
    Settle(resetBatchTimer([w EXCEPT !.inflight = RemoveAt(@, i)]),
           IF w.inflight[i].awaited THEN "logout" ELSE "listener")

\* Mutant: a rejected session lookup returns without the finally block.
sendBatchAfterSessionNoRearm(w, i, result) ==
    IF result = "throw" THEN sendBatchFinallyNoRearm(w, i)
    ELSE [w EXCEPT !.inflight[i].stage = "insert",
                   !.inflight[i].userId =
                       IF result = "user" THEN "user-1" ELSE "anonymous"]

\* sendBatch resumed after await getSession() (behavior.js:299-318):
\* result is "user" (a session with a user id), "none" (data.session null,
\* with or without an error field) or "throw" (the promise rejected).
sendBatchAfterSession(w, i, result) ==
    IF result = "throw" THEN sendBatchFinally(w, i)
    ELSE [w EXCEPT !.inflight[i].stage = "insert",
                   !.inflight[i].userId =
                       IF result = "user" THEN "user-1" ELSE "anonymous"]

\* The row handed to insert (behavior.js:305-318)
Row(b) ==
    [user_id |-> b.userId, keystroke_data |-> b.keystroke_events,
     mouse_data |-> b.mouse_events, scroll_data |-> b.scroll_events]

\* Mutant: the scroll sequence is not cleared with the other two.
clearSentDataPartial(w) ==
    [w EXCEPT !.keystrokeData = <<>>, !.mouseData = <<>>]

\* Clear sent data (behavior.js:324-327)
clearSentData(w) ==
    [w EXCEPT !.keystrokeData = <<>>, !.mouseData = <<>>, !.scrollData = <<>>]

\* Mutant: the row is built from the live sequences, not from the snapshot.
sendBatchAfterInsertLive(w, i, result) ==
    IF result = "ok"
    THEN sendBatchFinally(
             clearSentData([w EXCEPT !.sink = Append(@,
                 [user_id |-> w.inflight[i].userId,
                  keystroke_data |-> w.keystrokeData,
                  mouse_data |-> w.mouseData,
                  scroll_data |-> w.scrollData])]), i)
    ELSE sendBatchFinally(w, i)

\* Mutant: the sequences are cleared whatever insert returned.
sendBatchAfterInsertClearsOnError(w, i, result) ==
    IF result = "ok"
    THEN sendBatchFinally(
             clearSentData([w EXCEPT !.sink = Append(@, Row(w.inflight[i]))]), i)
    ELSE sendBatchFinally(clearSentData(w), i)

\* sendBatch resumed after await insert() (behavior.js:303-335): result is
\* "ok" (row stored, error null), "error" (error returned, nothing stored)
\* or "throw" (the request rejected).
sendBatchAfterInsert(w, i, result) ==
    IF result = "ok"
    THEN sendBatchFinally(
             clearSentData([w EXCEPT !.sink = Append(@, Row(w.inflight[i]))]), i)
    ELSE sendBatchFinally(w, i)

\* Mutant: below the threshold the pending timer is left running.
checkBatchSizeNoReset(w) ==
    IF TotalEvents(w) >= w.batchSize
    THEN sendBatch(w, "threshold")
    ELSE w

\* Mutant: the threshold is compared with > instead of >=.
checkBatchSizeStrict(w) ==
    IF TotalEvents(w) > w.batchSize
    THEN sendBatch(w, "threshold")
    ELSE resetBatchTimer(w)

\* checkBatchSize (behavior.js:254-262)
checkBatchSize(w) ==
    IF TotalEvents(w) >= w.batchSize
    THEN sendBatch(w, "threshold")
    ELSE resetBatchTimer(w)

\* ------------------------------------------------------------- capturer
\* The record a handler builds: its type tag and the identity of the DOM
\* event it came from (the payload fields are not modelled).
Event(id, type) == [id |-> id, type |-> type]

\* Mutant: handleKeyDown without its isMonitoring guard.
handleKeyDownUnguarded(w, id) ==
    checkBatchSize([w EXCEPT !.keystrokeData = Append(@, Event(id, "keydown"))])

\* handleKeyDown (behavior.js:91-111)
handleKeyDown(w, id) ==
    IF ~w.isMonitoring THEN w
    ELSE checkBatchSize([w EXCEPT !.keystrokeData = Append(@, Event(id, "keydown"))])

\* handleKeyUp (behavior.js:114-133)
handleKeyUp(w, id) ==
    IF ~w.isMonitoring THEN w
    ELSE checkBatchSize([w EXCEPT !.keystrokeData = Append(@, Event(id, "keyup"))])

\* handleMouseMove (behavior.js:136-158)
handleMouseMove(w, id) ==
    IF ~w.isMonitoring THEN w
    ELSE checkBatchSize([w EXCEPT !.mouseData = Append(@, Event(id, "mousemove"))])

\* handleMouseDown (behavior.js:161-175)
handleMouseDown(w, id) ==
    IF ~w.isMonitoring THEN w
    ELSE checkBatchSize([w EXCEPT !.mouseData = Append(@, Event(id, "mousedown"))])

\* handleMouseUp (behavior.js:178-192)
handleMouseUp(w, id) ==
    IF ~w.isMonitoring THEN w
    ELSE checkBatchSize([w EXCEPT !.mouseData = Append(@, Event(id, "mouseup"))])

\* handleClick (behavior.js:195-209)
handleClick(w, id) ==
    IF ~w.isMonitoring THEN w
    ELSE checkBatchSize([w EXCEPT !.mouseData = Append(@, Event(id, "click"))])

\* Mutant: handleScroll pushes its record onto the pointer sequence.
handleScrollIntoMouse(w, id) ==
    IF ~w.isMonitoring THEN w
    ELSE checkBatchSize([w EXCEPT !.mouseData = Append(@, Event(id, "scroll"))])

\* handleScroll (behavior.js:212-236)
handleScroll(w, id) ==
    IF ~w.isMonitoring THEN w
    ELSE checkBatchSize([w EXCEPT !.scrollData = Append(@, Event(id, "scroll"))])

\* Mutant: a call inside the window is forwarded as well.
throttleForwardsAll(w, forwarded, key, limit) ==
    IF ~w.inThrottle[key]
    THEN setTimeout([forwarded EXCEPT !.inThrottle[key] = TRUE], key, limit)
    ELSE forwarded

\* The function throttle returns (behavior.js:43-51), called on wrapper
\* `key` whose wrapped handler produced state `forwarded` from `w`.
throttle(w, forwarded, key, limit) ==
    IF ~w.inThrottle[key]
    THEN setTimeout([forwarded EXCEPT !.inThrottle[key] = TRUE], key, limit)
    ELSE w

\* The listeners registered by initEventListeners (behavior.js:21-31)
Dispatch(w, type, id) ==
    CASE type = "keydown" -> handleKeyDown(w, id)
      [] type = "keyup" -> handleKeyUp(w, id)
      [] type = "mousemove" ->
            throttle(w, handleMouseMove(w, id), "mousemove", MouseMoveLimit)
      [] type = "mousedown" -> handleMouseDown(w, id)
      [] type = "mouseup" -> handleMouseUp(w, id)
      [] type = "click" -> handleClick(w, id)
      [] type = "scroll" ->
            throttle(w, handleScroll(w, id), "scroll", ScrollLimit)

\* ------------------------------------------------------------- history
EventTypes == KeystrokeTypes \cup PointerTypes \cup ScrollTypes

Buffered(w) ==
    {w.keystrokeData[i] : i \in 1..Len(w.keystrokeData)}
        \cup {w.mouseData[i] : i \in 1..Len(w.mouseData)}
        \cup {w.scrollData[i] : i \in 1..Len(w.scrollData)}

\* Monitoring, nothing buffered, nothing being sent.
Quiet(w) == w.isMonitoring /\ ~hasData(w) /\ w.inflight = <<>>

Op(op, out) == [op |-> op, out |-> out]

\* The step producing w2 is within the bound on sends, and is counted.
Counted(w2) ==
    /\ sends' = IF Len(w2.inflight) > Len(inflight) THEN sends + 1 ELSE sends
    /\ sends' <= MaxSends

\* A step of the program other than a capture: w2 is the state it produces.
Step(w2, op, out) ==
    /\ Counted(w2)
    /\ Commit(w2)
    /\ last' = Op(op, out)
    /\ run' = IF Quiet(w2) THEN Fresh ELSE Broken
    /\ UNCHANGED <<nextId, captured>>
    /\ UNCHANGED authVars

\* The auth page's script has not run: the pages that construct a
\* BehaviorMonitor are modelled without it.
AuthNotLoaded ==
    /\ supabaseClient = TRUE
    /\ pageLoaded = FALSE
    /\ loginPage = FALSE
    /\ authSession = "user"
    /\ authTimers = {}
    /\ inits = 0
    /\ visibilityListeners = 0
    /\ checking = 0
    /\ authPending = [login |-> 0, logout |-> 0]
    /\ errorMessage = FALSE

\* ------------------------------------------------------------- actions
\* The constructor (behavior.js:3-16) followed by initEventListeners, which
\* ends with startMonitoring (behavior.js:37); the page is visible.
Constructed(size, events) ==
    /\ keystrokeData = <<>>
    /\ mouseData = <<>>
    /\ scrollData = <<>>
    /\ batchSize = size
    /\ maxEvents = events
    /\ isMonitoring = TRUE
    /\ batchTimer = 1
    /\ inThrottle = [k \in ThrottledTypes |-> FALSE]
    /\ timers = {[id |-> 1, kind |-> "batch", left |-> batchInterval]}
    /\ inflight = <<>>
    /\ sink = <<>>
    /\ helperPending = <<>>
    /\ session = "user"
    /\ resumes = 0
    /\ nextId = 1
    /\ logouts = 0
    /\ sends = 0
    /\ captured = {}
    /\ run = Fresh
    /\ last = Op("init", "")
    /\ AuthNotLoaded

Init == Constructed(BatchSizeBound, MaxEvents)

\* The page dispatches a DOM event of the given type to its listener.
Capture(type) ==
    /\ resumes = 0
    /\ nextId <= maxEvents
    /\ LET ev == Event(nextId, type)
           w2 == Dispatch(World, type, nextId)
           appended == ev \in Buffered(w2)
           out == IF appended THEN "appended"
                  ELSE IF type \in ThrottledTypes /\ inThrottle[type]
                       THEN "throttled" ELSE "dropped"
       IN  /\ Counted(w2)
           /\ Commit(w2)
           /\ nextId' = nextId + 1
           /\ captured' = IF appended THEN captured \cup {ev} ELSE captured
           /\ run' = IF appended /\ run.ok
                     THEN [run EXCEPT !.events = Append(@, ev)] ELSE run
           /\ last' = Op("capture", out)
    /\ UNCHANGED <<logouts, session, maxEvents>>
    /\ UNCHANGED authVars

KeyDown == Capture("keydown")
KeyUp == Capture("keyup")
MouseMove == Capture("mousemove")
MouseDown == Capture("mousedown")
MouseUp == Capture("mouseup")
Click == Capture("click")
Scroll == Capture("scroll")

\* One unit of time passes; no timeout is overdue.
Tick ==
    /\ resumes = 0
    /\ timers # {}
    /\ \A t \in timers : t.left > 0
    /\ timers' = {[t EXCEPT !.left = @ - 1] : t \in timers}
    /\ last' = Op("tick", "")
    /\ UNCHANGED <<keystrokeData, mouseData, scrollData, batchSize,
                   isMonitoring, batchTimer, inThrottle, inflight, sink,
                   helperPending, session, resumes, nextId, maxEvents,
                   logouts, sends, captured, run>>
    /\ UNCHANGED authVars

\* The idle timer's callback (behavior.js:85-87)
BatchTimerFire ==
    /\ resumes = 0
    /\ \E t \in timers :
        /\ t.kind = "batch"
        /\ t.left = 0
        /\ Step(sendBatch([World EXCEPT !.timers = @ \ {t}], "timer"),
                "batchTimer", IF isMonitoring THEN "monitoring" ELSE "stopped")
    /\ UNCHANGED <<logouts, session, maxEvents>>

\* A throttle wrapper's timeout callback (behavior.js:49)
ThrottleTimerFire ==
    /\ resumes = 0
    /\ \E t \in timers :
        /\ t.kind \in ThrottledTypes
        /\ t.left = 0
        /\ Commit([World EXCEPT !.timers = @ \ {t},
                                !.inThrottle[t.kind] = FALSE])
        /\ last' = Op("throttleTimer", t.kind)
    /\ UNCHANGED <<session, nextId, maxEvents, logouts, sends, captured,
                   run>>
    /\ UNCHANGED authVars

\* await supabase.auth.getSession() settles for a suspended sendBatch.
SessionResolved ==
    /\ resumes = 0
    /\ \E i \in 1..Len(inflight), result \in {session, "throw"} :
        /\ inflight[i].stage = "getSession"
        /\ Step(sendBatchAfterSession(World, i, result), "getSession", result)
    /\ UNCHANGED <<logouts, session, maxEvents>>

\* The stored auth session ends (sign-out elsewhere, or expiry).
SessionEnds ==
    /\ resumes = 0
    /\ session = "user"
    /\ session' = "none"
    /\ last' = Op("sessionEnds", "")
    /\ UNCHANGED <<keystrokeData, mouseData, scrollData, batchSize,
                   isMonitoring, batchTimer, inThrottle, timers, inflight,
                   sink, helperPending, resumes, nextId, maxEvents, logouts,
                   sends, captured, run>>
    /\ UNCHANGED authVars

\* await supabase.from('behavior_logs').insert(...) settles.
InsertResolved ==
    /\ resumes = 0
    /\ \E i \in 1..Len(inflight), result \in {"ok", "error", "throw"} :
        /\ inflight[i].stage = "insert"
        /\ Step(sendBatchAfterInsert(World, i, result), "insert", result)
    /\ UNCHANGED <<logouts, session, maxEvents>>

\* The visibilitychange listener (behavior.js:350-357), for either value of
\* document.visibilityState.
VisibilityChange ==
    /\ resumes = 0
    /\ \E visibilityState \in {"visible", "hidden"} :
        IF visibilityState = "visible"
        THEN Step(startMonitoring(World), "visibilitychange", visibilityState)
        ELSE Step(sendBatch(World, "hidden"), "visibilitychange", visibilityState)
    /\ UNCHANGED <<logouts, session, maxEvents>>

\* The beforeunload listener (behavior.js:34)
BeforeUnload ==
    /\ resumes = 0
    /\ Step(sendBatch(World, "unload"), "beforeunload", "")
    /\ UNCHANGED <<logouts, session, maxEvents>>

\* The rows scripts pass to window.supabaseHelper.insertBehaviorData: any
\* object; here one with a keystroke event the monitor did not capture.
HelperRows ==
    {[user_id |-> "user-1", keystroke_data |-> <<Event(0, "keydown")>>,
      mouse_data |-> <<>>, scroll_data |-> <<>>]}

\* insertBehaviorData up to its await (behavior.js:420-425): the insert of
\* the row as passed is requested.
insertBehaviorData(w, data) ==
    [w EXCEPT !.helperPending = Append(@, data)]

\* insertBehaviorData resumed after await insert (behavior.js:423-433):
\* result is "ok" (stored) or "error" (insert returned an error or
\* rejected, caught, nothing stored).
insertBehaviorDataResumed(w, i, result) ==
    LET data == w.helperPending[i]
        r == [w EXCEPT !.helperPending =
                  SubSeq(@, 1, i - 1) \o SubSeq(@, i + 1, Len(@))]
    IN  IF result = "ok" THEN [r EXCEPT !.sink = Append(@, data)] ELSE r

\* The helper's rows stored or on their way.
HelperCount(data) ==
    Cardinality({r \in 1..Len(sink) : sink[r] = data})
        + Cardinality({i \in 1..Len(helperPending) : helperPending[i] = data})

\* A script calls window.supabaseHelper.insertBehaviorData(data); the
\* monitor is not involved.
InsertBehaviorData ==
    /\ resumes = 0
    /\ \E data \in HelperRows :
        /\ HelperCount(data) < MaxHelperRows
        /\ Commit(insertBehaviorData(World, data))
        /\ last' = Op("insertBehaviorData", "called")
    /\ UNCHANGED <<session, nextId, maxEvents, logouts, sends, captured, run>>
    /\ UNCHANGED authVars

\* The insert of a supabaseHelper.insertBehaviorData call settles.
InsertBehaviorDataResolved ==
    /\ resumes = 0
    /\ \E i \in 1..Len(helperPending), result \in {"ok", "error"} :
        /\ Commit(insertBehaviorDataResumed(World, i, result))
        /\ last' = Op("insertBehaviorData", result)
    /\ UNCHANGED <<session, nextId, maxEvents, logouts, sends, captured, run>>
    /\ UNCHANGED authVars

\* The logout button's click listener up to its await (behavior.js:362-364)
LogoutClick ==
    /\ resumes = 0
    /\ logouts < MaxLogout
    /\ logouts' = logouts + 1
    /\ Step(sendBatch(World, "logout"), "logoutClick", "")
    /\ UNCHANGED <<session, maxEvents>>

\* The logout listener resumed after its await (behavior.js:365); it runs
\* as a microtask, before any other event or timer is handled.
LogoutResume ==
    /\ resumes > 0
    /\ Step(stopMonitoring([World EXCEPT !.resumes = @ - 1]), "logoutResume", "")
    /\ UNCHANGED <<logouts, session, maxEvents>>

\* The listeners and callbacks of the monitor and its page wiring.
NextMonitor ==
    \/ KeyDown
    \/ KeyUp
    \/ MouseMove
    \/ MouseDown
    \/ MouseUp
    \/ Click
    \/ Scroll
    \/ Tick
    \/ BatchTimerFire
    \/ ThrottleTimerFire
    \/ SessionResolved
    \/ SessionEnds
    \/ InsertResolved
    \/ VisibilityChange
    \/ BeforeUnload
    \/ LogoutClick
    \/ LogoutResume

Next ==
    \/ NextMonitor
    \/ InsertBehaviorData
    \/ InsertBehaviorDataResolved

Spec == Init /\ [][Next]_vars

\* Runs in which the page only dispatches capture events and time passes:
\* no response arrives from the network and no lifecycle event occurs.
InitCapture == Constructed(CaptureBatchSize, CaptureEvents)

NextCapture ==
    \/ KeyDown
    \/ KeyUp
    \/ MouseMove
    \/ MouseDown
    \/ MouseUp
    \/ Click
    \/ Scroll
    \/ Tick
    \/ BatchTimerFire
    \/ ThrottleTimerFire

SpecCapture == InitCapture /\ [][NextCapture]_vars

\* A script calls window.behaviorMonitor.startMonitoring() (the monitor is
\* published as a global, behavior.js:347).
StartMonitoring ==
    /\ resumes = 0
    /\ Step(startMonitoring(World), "startMonitoring",
            IF isMonitoring THEN "monitoring" ELSE "stopped")
    /\ UNCHANGED <<logouts, session, maxEvents>>

\* A script calls window.behaviorMonitor.stopMonitoring().
StopMonitoring ==
    /\ resumes = 0
    /\ Step(stopMonitoring(World), "stopMonitoring",
            IF isMonitoring THEN "monitoring" ELSE "stopped")
    /\ UNCHANGED <<logouts, session, maxEvents>>

\* Runs in which the monitor is started and stopped directly, in any order,
\* while events are captured and sends come back from the network.
NextLifecycle ==
    \/ KeyDown
    \/ KeyUp
    \/ MouseMove
    \/ MouseDown
    \/ MouseUp
    \/ Click
    \/ Scroll
    \/ Tick
    \/ BatchTimerFire
    \/ ThrottleTimerFire
    \/ SessionResolved
    \/ InsertResolved
    \/ StartMonitoring
    \/ StopMonitoring
    \/ InsertBehaviorData
    \/ InsertBehaviorDataResolved

SpecLifecycle == Init /\ [][NextLifecycle]_vars

\* The event loop keeps running: time passes, a timeout that is due has its
\* callback run, and a resolved await is resumed.  Nothing is assumed about
\* the network or the user.  The runs are those of the monitor and its page
\* wiring; rows other scripts insert through window.supabaseHelper touch
\* nothing the scheduler reads and are left out.
SpecFair ==
    /\ Init
    /\ [][NextMonitor]_vars
    /\ WF_vars(Tick)
    /\ WF_vars(BatchTimerFire)
    /\ WF_vars(ThrottleTimerFire)
    /\ WF_vars(LogoutResume)

\* ------------------------------------------------------------- auth page
\* The auth page's state as one record (src/unnamed/part_001).
AuthWorld ==
    [supabaseClient |-> supabaseClient, pageLoaded |-> pageLoaded,
     loginPage |-> loginPage, authSession |-> authSession,
     authTimers |-> authTimers, inits |-> inits,
     visibilityListeners |-> visibilityListeners, checking |-> checking,
     authPending |-> authPending, errorMessage |-> errorMessage]

AuthCommit(a) ==
    /\ supabaseClient' = a.supabaseClient
    /\ pageLoaded' = a.pageLoaded
    /\ loginPage' = a.loginPage
    /\ authSession' = a.authSession
    /\ authTimers' = a.authTimers
    /\ inits' = a.inits
    /\ visibilityListeners' = a.visibilityListeners
    /\ checking' = a.checking
    /\ authPending' = a.authPending
    /\ errorMessage' = a.errorMessage

\* Everything but the auth page's state.
monitorVars ==
    <<keystrokeData, mouseData, scrollData, batchSize, isMonitoring,
      batchTimer, inThrottle, timers, inflight, sink, helperPending,
      session, resumes, nextId, maxEvents, logouts, sends, captured, run, last>>

\* checkSession up to its await (part_001:26-35)
checkSession(a) ==
    IF ~a.supabaseClient THEN a ELSE [a EXCEPT !.checking = @ + 1]

\* authHandler.init (part_001:9-24): a session check, a new 60 s interval
\* and a new visibilitychange listener.
init(a) ==
    LET c == checkSession([a EXCEPT !.inits = @ + 1])
    IN  [c EXCEPT !.authTimers = @ \cup {[kind |-> "sessionInterval",
                                          id |-> c.inits,
                                          left |-> SessionPeriod]},
                  !.visibilityListeners = @ + 1]

\* window.location.href = ... : the navigation is requested and the script
\* goes on; the page's timers, listeners and pending calls stay as they
\* are and keep running for as long as the document is there.
navigate(a) ==
    [a EXCEPT !.pageLoaded = FALSE]

\* checkSession resumed after await getSession() (part_001:36-59): result
\* is "user", "none" or "error".
checkSessionResumed(a, result) ==
    LET r == [a EXCEPT !.checking = @ - 1]
    IN  IF result = "user"
        THEN IF a.loginPage THEN navigate(r) ELSE r
        ELSE IF ~a.loginPage THEN navigate(r) ELSE r

\* The state the DOMContentLoaded listener of the auth page leaves
\* (part_001:155-173): the 100 ms poll and the 5 s timeout are pending.
\* The client may or may not exist yet; no BehaviorMonitor is involved.
InitAuth ==
    /\ keystrokeData = <<>>
    /\ mouseData = <<>>
    /\ scrollData = <<>>
    /\ batchSize = BatchSizeBound
    /\ maxEvents = 0
    /\ isMonitoring = FALSE
    /\ batchTimer = Null
    /\ inThrottle = [k \in ThrottledTypes |-> FALSE]
    /\ timers = {}
    /\ inflight = <<>>
    /\ sink = <<>>
    /\ helperPending = <<>>
    /\ session = "none"
    /\ resumes = 0
    /\ nextId = 1
    /\ logouts = 0
    /\ sends = 0
    /\ captured = {}
    /\ run = Broken
    /\ last = Op("init", "")
    /\ supabaseClient \in BOOLEAN
    /\ pageLoaded = TRUE
    /\ loginPage \in BOOLEAN
    /\ authSession \in {"user", "none"}
    /\ authTimers = {[kind |-> "waitForSupabase", id |-> 0, left |-> PollPeriod],
                     [kind |-> "initTimeout", id |-> 0, left |-> InitTimeout]}
    /\ inits = 0
    /\ visibilityListeners = 0
    /\ checking = 0
    /\ authPending = [login |-> 0, logout |-> 0]
    /\ errorMessage \in BOOLEAN

\* A step of the auth page producing state a.
AuthStep(a) ==
    /\ a.checking <= MaxChecking
    /\ AuthCommit(a)
    /\ UNCHANGED monitorVars

\* Another script of the page creates window.supabaseClient
\* (behavior.js:375-383).
ClientCreated ==
    /\ ~supabaseClient
    /\ AuthStep([AuthWorld EXCEPT !.supabaseClient = TRUE])

\* The stored session changes (login or logout in another tab, expiry).
AuthSessionChanges ==
    \E v \in {"user", "none"} :
        /\ v # authSession
        /\ AuthStep([AuthWorld EXCEPT !.authSession = v])

\* One unit of time passes on the auth page; no callback is overdue.
AuthTick ==
    /\ authTimers # {}
    /\ \A t \in authTimers : t.left > 0
    /\ AuthStep([AuthWorld EXCEPT
           !.authTimers = {[t EXCEPT !.left = @ - 1] : t \in @}])

\* The waitForSupabase interval's callback (part_001:158-163)
WaitForSupabaseFire ==
    \E t \in authTimers :
        /\ t.kind = "waitForSupabase"
        /\ t.left = 0
        /\ IF supabaseClient
           THEN AuthStep(init([AuthWorld EXCEPT !.authTimers = @ \ {t}]))
           ELSE AuthStep([AuthWorld EXCEPT !.authTimers =
                    (@ \ {t}) \cup {[t EXCEPT !.left = PollPeriod]}])

\* The 5 s timeout's callback (part_001:166-172)
InitTimeoutFire ==
    \E t \in authTimers :
        /\ t.kind = "initTimeout"
        /\ t.left = 0
        /\ IF supabaseClient
           THEN AuthStep(init([AuthWorld EXCEPT !.authTimers = @ \ {t}]))
           ELSE AuthStep([AuthWorld EXCEPT !.authTimers = @ \ {t}])

\* A 60 s session interval's callback (part_001:14-16)
SessionIntervalFire ==
    \E t \in authTimers :
        /\ t.kind = "sessionInterval"
        /\ t.left = 0
        /\ AuthStep(checkSession([AuthWorld EXCEPT !.authTimers =
               (@ \ {t}) \cup {[t EXCEPT !.left = SessionPeriod]}]))

\* The tab becomes visible: every listener init registered runs
\* checkSession (part_001:19-23).
AuthVisible ==
    /\ visibilityListeners > 0
    /\ AuthStep([AuthWorld EXCEPT !.checking = @ + visibilityListeners])

\* await supabase.auth.getSession() settles for a checkSession call.
CheckSessionResolved ==
    /\ checking > 0
    /\ \E result \in {authSession, "error"} :
          AuthStep(checkSessionResumed(AuthWorld, result))

LoginRedirects(ts) == {t \in ts : t.kind = "loginRedirect"}
HideErrors(ts) == {t \in ts : t.kind = "hideError"}

\* The timeout that hides the error message again, in ticks (5000 ms,
\* part_001:110: the length of the 5 s timeout of part_001:172).
HideErrorDelay == InitTimeout

\* The catch and finally blocks of login (part_001:97-118): on a page with
\* the #error-message element the message is shown and a timeout is armed
\* to hide it.
loginFailed(a) ==
    LET used == {t.id : t \in HideErrors(a.authTimers)}
        id == CHOOSE n \in 1..(Cardinality(used) + 1) : n \notin used
    IN  IF a.errorMessage
        THEN [a EXCEPT !.authTimers = @ \cup {[kind |-> "hideError", id |-> id,
                                               left |-> HideErrorDelay]}]
        ELSE a

\* authHandler.login up to its await (part_001:62-86): without a client it
\* throws into its own catch.
login(a) ==
    IF ~a.supabaseClient THEN loginFailed(a)
    ELSE [a EXCEPT !.authPending.login = @ + 1]

\* login resumed after await signInWithPassword (part_001:83-118): result
\* is "ok" (signed in: the redirect is scheduled), "error" (an error is
\* returned) or "throw" (the call rejects).
loginResumed(a, result) ==
    LET r == [a EXCEPT !.authPending.login = @ - 1]
        used == {t.id : t \in LoginRedirects(a.authTimers)}
        id == CHOOSE n \in 1..(Cardinality(used) + 1) : n \notin used
    IN  IF result = "ok"
        THEN [r EXCEPT !.authSession = "user",
                       !.authTimers = @ \cup {[kind |-> "loginRedirect",
                                               id |-> id, left |-> LoginDelay]}]
        ELSE loginFailed(r)

\* authHandler.logout up to its await (part_001:121-135): without a client
\* it redirects at once; window.flushBehaviorData is not defined by any
\* script of the page, so the flush is skipped.
logout(a) ==
    IF ~a.supabaseClient THEN navigate(a)
    ELSE [a EXCEPT !.authPending.logout = @ + 1]

\* logout resumed after await signOut() (part_001:135-144): result is "ok"
\* (signed out) or "failed" (signOut returned an error or threw); the
\* redirect to the login page follows either way.
logoutResumed(a, result) ==
    LET r == [a EXCEPT !.authPending.logout = @ - 1]
    IN  navigate(IF result = "ok" THEN [r EXCEPT !.authSession = "none"] ELSE r)

\* The login form is submitted: authHandler.login(email, password).
LoginCalled ==
    /\ authPending.login + Cardinality(LoginRedirects(authTimers))
           + Cardinality(HideErrors(authTimers)) < MaxAuthCalls
    /\ AuthStep(login(AuthWorld))

LoginResolved ==
    /\ authPending.login > 0
    /\ \E result \in {"ok", "error", "throw"} :
          AuthStep(loginResumed(AuthWorld, result))

\* The timeout login scheduled (part_001:93-95)
LoginRedirectFire ==
    \E t \in authTimers :
        /\ t.kind = "loginRedirect"
        /\ t.left = 0
        /\ AuthStep(navigate([AuthWorld EXCEPT !.authTimers = @ \ {t}]))

\* The timeout login's catch block scheduled (part_001:108-110): the
\* message is hidden.
HideErrorFire ==
    \E t \in authTimers :
        /\ t.kind = "hideError"
        /\ t.left = 0
        /\ AuthStep([AuthWorld EXCEPT !.authTimers = @ \ {t}])

\* The logout control is used: authHandler.logout().
LogoutCalled ==
    /\ authPending.logout < MaxAuthCalls
    /\ AuthStep(logout(AuthWorld))

LogoutResolved ==
    /\ authPending.logout > 0
    /\ \E result \in {"ok", "failed"} :
          AuthStep(logoutResumed(AuthWorld, result))

NextAuth ==
    \/ LoginCalled
    \/ LoginResolved
    \/ LoginRedirectFire
    \/ HideErrorFire
    \/ LogoutCalled
    \/ LogoutResolved
    \/ ClientCreated
    \/ AuthSessionChanges
    \/ AuthTick
    \/ WaitForSupabaseFire
    \/ InitTimeoutFire
    \/ SessionIntervalFire
    \/ AuthVisible
    \/ CheckSessionResolved

SpecAuth == InitAuth /\ [][NextAuth]_vars

\* ------------------------------------------------------------- properties
FailedSend ==
    \/ last.op = "getSession" /\ last.out = "throw"
    \/ last.op = "insert" /\ last.out \in {"error", "throw"}

SuccessfulSend == last.op = "insert" /\ last.out = "ok"

AcceptedCapture == last.op = "capture" /\ last.out = "appended"

\* Exactly one idle timer is pending: the one this.batchTimer names, with
\* the whole of batchInterval ahead of it.
FreshlyArmed(ts, handle) ==
    BatchTimers(ts) = {[id |-> handle, kind |-> "batch", left |-> batchInterval]}

InBatch(e, row) ==
    \/ \E i \in 1..Len(row.keystroke_data) : row.keystroke_data[i] = e
    \/ \E i \in 1..Len(row.mouse_data) : row.mouse_data[i] = e
    \/ \E i \in 1..Len(row.scroll_data) : row.scroll_data[i] = e

\* C1: a failed send (getSession or insert rejects, or insert returns an
\* error) changes none of the three buffer sequences, neither when its
\* session lookup settles nor when it fails, and when it returns exactly
\* one idle timer is pending, newly armed.
C1_FailedSendKeepsBuffer ==
    [][/\ last'.op = "getSession" =>
            UNCHANGED <<keystrokeData, mouseData, scrollData>>
       /\ FailedSend' =>
            /\ UNCHANGED <<keystrokeData, mouseData, scrollData>>
            /\ Len(inflight') = Len(inflight) - 1
            /\ sink' = sink
            /\ FreshlyArmed(timers', batchTimer')]_vars

C1_Witness ==
    /\ FailedSend
    /\ hasData(World)
    /\ Cardinality(BatchTimers(timers)) = 1

\* C2: a successful send empties the three buffer sequences and leaves
\* isMonitoring as it was.
C2_SuccessfulSendClears ==
    [][SuccessfulSend' =>
          /\ keystrokeData' = <<>>
          /\ mouseData' = <<>>
          /\ scrollData' = <<>>
          /\ isMonitoring' = isMonitoring]_vars

C2_Witness ==
    /\ SuccessfulSend
    /\ isMonitoring
    /\ sink # <<>>
    /\ ~hasData(World)

\* C3: every event accepted into the buffer is still buffered, or is part of
\* a row the sink stored, or at least of a batch still on its way to the
\* sink (no accepted event is discarded without having been sent).
C3_NoAcceptedEventLost ==
    \A e \in captured :
        \/ e \in Buffered(World)
        \/ \E r \in 1..Len(sink) : InBatch(e, sink[r])
        \/ \E i \in 1..Len(inflight) : InBatch(e, Row(inflight[i]))

\* C4: at most one sendBatch transmission is in flight at any time.
C4_AtMostOneInFlight == Len(inflight) <= 1

\* C5: the append that brings the buffered total to batchSize starts a send
\* within the same handler, carrying the buffer as it then stands.
C5_ThresholdTriggersSend ==
    [][(AcceptedCapture' /\ TotalEvents(World)' >= batchSize) =>
          /\ Len(inflight') = Len(inflight) + 1
          /\ inflight'[Len(inflight')].stage = "getSession"
          /\ inflight'[Len(inflight')].keystroke_events = keystrokeData'
          /\ inflight'[Len(inflight')].mouse_events = mouseData'
          /\ inflight'[Len(inflight')].scroll_events = scrollData']_vars

C5_Witness ==
    /\ AcceptedCapture
    /\ TotalEvents(World) >= batchSize
    /\ inflight # <<>>
    /\ inflight[Len(inflight)].keystroke_events = keystrokeData

IsKeystroke(e) == e.type \in KeystrokeTypes
IsPointer(e) == e.type \in PointerTypes
IsScroll(e) == e.type \in ScrollTypes

\* C6: after N < batchSize captures from an empty buffer while monitoring,
\* with nothing else having happened, the buffer holds exactly those N
\* events, each in the sequence of its family, and no send has been made.
C6_BelowThresholdBuffered ==
    (run.ok /\ Len(run.events) < batchSize) =>
        /\ keystrokeData = SelectSeq(run.events, IsKeystroke)
        /\ mouseData = SelectSeq(run.events, IsPointer)
        /\ scrollData = SelectSeq(run.events, IsScroll)
        /\ TotalEvents(World) = Len(run.events)
        /\ inflight = <<>>

C6_Witness ==
    /\ run.ok
    /\ Len(run.events) = batchSize - 1
    /\ keystrokeData # <<>>
    /\ scrollData # <<>>
    /\ mouseData = <<>>

\* C7: when the idle timer fires while monitoring, a send is started if
\* anything is buffered, and otherwise nothing is sent and the timer is
\* armed again; every send that was started arms the timer when it returns.
C7_IdleTimerTriggersSend ==
    [][/\ (last'.op = "batchTimer" /\ isMonitoring) =>
            IF hasData(World)
            THEN /\ Len(inflight') = Len(inflight) + 1
                 /\ inflight'[Len(inflight')].keystroke_events = keystrokeData
                 /\ inflight'[Len(inflight')].mouse_events = mouseData
                 /\ inflight'[Len(inflight')].scroll_events = scrollData
            ELSE /\ inflight' = inflight
                 /\ sink' = sink
                 /\ FreshlyArmed(timers', batchTimer')
       /\ (Len(inflight') < Len(inflight)) =>
            FreshlyArmed(timers', batchTimer')]_vars

C7_Witness ==
    /\ last.op = "batchTimer"
    /\ last.out = "monitoring"
    /\ inflight # <<>>
    /\ BatchTimers(timers) = {}

\* C8: while isMonitoring is false a capture event appends nothing and
\* leaves nothing behind from which it could be appended later.
C8_StoppedCaptureIsNoOp ==
    [][(last'.op = "capture" /\ ~isMonitoring) =>
          /\ UNCHANGED <<keystrokeData, mouseData, scrollData, isMonitoring,
                         batchTimer, inflight, sink, resumes, captured>>
          /\ BatchTimers(timers') = BatchTimers(timers)]_vars

C8_Witness ==
    /\ last.op = "capture"
    /\ last.out = "dropped"
    /\ ~isMonitoring
    /\ nextId > 1

\* C9: at most one idle flush timer is pending in every reachable state.
C9_AtMostOneIdleTimer == Cardinality(BatchTimers(timers)) <= 1

C9_Witness ==
    /\ AcceptedCapture
    /\ TotalEvents(World) < batchSize
    /\ FreshlyArmed(timers, batchTimer)

\* C10: whenever monitoring is active and no send is in flight, exactly one
\* idle flush timer is pending.
C10_OneTimerWhenIdle ==
    (isMonitoring /\ inflight = <<>>) =>
        Cardinality(BatchTimers(timers)) = 1

C10_Witness ==
    /\ last.op = "insert"
    /\ isMonitoring
    /\ inflight = <<>>
    /\ Cardinality(BatchTimers(timers)) = 1

IsPrefix(s, t) == Len(s) <= Len(t) /\ SubSeq(t, 1, Len(s)) = s

\* Every event of the sequence before the step is still in it afterwards,
\* at the same place.
OnlyAppended ==
    /\ IsPrefix(keystrokeData, keystrokeData')
    /\ IsPrefix(mouseData, mouseData')
    /\ IsPrefix(scrollData, scrollData')

\* C11: a step that removes an event from any of the three sequences is the
\* return of a send whose insert succeeded (a row was stored in that step),
\* and it leaves all three sequences empty; every other step only appends.
C11_ClearedOnlyBySuccessfulSend ==
    [][OnlyAppended \/
       (/\ SuccessfulSend'
        /\ Len(sink') = Len(sink) + 1
        /\ Len(inflight') = Len(inflight) - 1
        /\ keystrokeData' = <<>>
        /\ mouseData' = <<>>
        /\ scrollData' = <<>>)]_vars

C11_Witness ==
    /\ SuccessfulSend
    /\ Len(sink) = 1
    /\ sink[1].mouse_data # <<>>
    /\ sink[1].keystroke_data # <<>>
    /\ ~hasData(World)

\* The step was a call of sendBatch by the idle timer or by a page listener.
SendBatchCalled ==
    \/ last.op \in {"batchTimer", "beforeunload", "logoutClick"}
    \/ last.op = "visibilitychange" /\ last.out = "hidden"

\* C12: sendBatch called while isMonitoring is false starts no send, stores
\* no row, changes no sequence, and neither cancels nor arms a timer (the
\* only timer that leaves the pending set is the one whose callback made
\* the call).
C12_StoppedSendIsNoOp ==
    [][(SendBatchCalled' /\ ~isMonitoring) =>
          /\ UNCHANGED <<keystrokeData, mouseData, scrollData, inflight, sink,
                         isMonitoring, batchTimer, inThrottle>>
          /\ timers' \subseteq timers
          /\ Cardinality(timers') =
                 IF last'.op = "batchTimer"
                 THEN Cardinality(timers) - 1 ELSE Cardinality(timers)]_vars

C12_Witness ==
    /\ last.op = "beforeunload"
    /\ ~isMonitoring
    /\ hasData(World)
    /\ BatchTimers(timers) # {}

\* C13: sendBatch called while monitoring with all three sequences empty
\* starts no send and stores no row, and when it returns exactly one idle
\* timer is pending, newly armed; nothing else of the monitor changes, so
\* the next flush is the one that timer makes a whole interval later.
C13_EmptyFlushRearms ==
    [][(SendBatchCalled' /\ isMonitoring /\ ~hasData(World)) =>
          /\ UNCHANGED <<keystrokeData, mouseData, scrollData, inflight, sink,
                         isMonitoring>>
          /\ FreshlyArmed(timers', batchTimer')]_vars

C13_Witness ==
    /\ last.op = "visibilitychange"
    /\ last.out = "hidden"
    /\ isMonitoring
    /\ ~hasData(World)
    /\ sink # <<>>
    /\ FreshlyArmed(timers, batchTimer)

\* C14: startMonitoring while monitoring and stopMonitoring while stopped
\* change nothing of the monitor (flag, sequences, batchTimer, and the
\* pending timers with the time each has left), and the lifecycle flag
\* has no value other than stopped and monitoring.
C14_StartStopIdempotent ==
    [][/\ ((last'.op = "startMonitoring" /\ isMonitoring)
            \/ (last'.op = "stopMonitoring" /\ ~isMonitoring)) =>
              UNCHANGED <<keystrokeData, mouseData, scrollData, batchSize,
                          isMonitoring, batchTimer, inThrottle, timers,
                          inflight, sink>>
       /\ isMonitoring' \in BOOLEAN]_vars

C14_Witness ==
    /\ last.op = "startMonitoring"
    /\ last.out = "monitoring"
    /\ hasData(World)
    /\ \E t \in BatchTimers(timers) : t.left < batchInterval

\* C15: stopMonitoring called while monitoring clears the flag, cancels the
\* idle timer (none is pending afterwards and batchTimer is null) and
\* leaves the three sequences, the pending sends and the sink unchanged;
\* a later startMonitoring sets the flag and leaves the sequences unchanged.
C15_StopKeepsBuffer ==
    [][/\ (last'.op = "stopMonitoring" /\ isMonitoring) =>
              /\ ~isMonitoring'
              /\ batchTimer' = Null
              /\ BatchTimers(timers') = {}
              /\ UNCHANGED <<keystrokeData, mouseData, scrollData, inflight,
                             sink>>
       /\ (last'.op = "startMonitoring") =>
              /\ isMonitoring'
              /\ UNCHANGED <<keystrokeData, mouseData, scrollData>>]_vars

C15_Witness ==
    /\ last.op = "startMonitoring"
    /\ last.out = "stopped"
    /\ isMonitoring
    /\ Len(keystrokeData) = 1
    /\ inflight = <<>>
    /\ sink = <<>>

\* C16: when the session lookup of a send comes back without a session or
\* fails, that send goes on to the insert, with user id 'anonymous'.
C16_SessionFailureSendsAnonymous ==
    [][(last'.op = "getSession" /\ last'.out \in {"none", "throw"}) =>
          /\ Len(inflight') = Len(inflight)
          /\ \E i \in 1..Len(inflight) :
                /\ inflight[i].stage = "getSession"
                /\ inflight'[i].stage = "insert"
                /\ inflight'[i].userId = "anonymous"]_vars

\* The three sequences a pending send or a stored row carries.
Snapshot(k, m, sc) == [keystroke |-> k, mouse |-> m, scroll |-> sc]
SnapshotOf(b) == Snapshot(b.keystroke_events, b.mouse_events, b.scroll_events)
SnapshotsOf(fl) == [i \in 1..Len(fl) |-> SnapshotOf(fl[i])]

\* C17: the batch of a send is the three sequences as they are when
\* sendBatch is entered; it does not change while the send is pending,
\* whatever is appended meanwhile; and the row a successful send stores
\* carries exactly that batch, after which the sequences are empty.
C17_BatchIsSnapshot ==
    [][/\ Len(inflight') > Len(inflight) =>
              /\ SnapshotsOf(inflight') = Append(SnapshotsOf(inflight),
                     Snapshot(keystrokeData', mouseData', scrollData'))
              /\ OnlyAppended
       /\ Len(inflight') = Len(inflight) =>
              SnapshotsOf(inflight') = SnapshotsOf(inflight)
       /\ Len(inflight') < Len(inflight) =>
              \E i \in 1..Len(inflight) :
                  /\ SnapshotsOf(inflight') = RemoveAt(SnapshotsOf(inflight), i)
                  /\ SuccessfulSend' =>
                        /\ sink' = Append(sink, Row(inflight[i]))
                        /\ ~hasData(World)']_vars

C17_Witness ==
    /\ SuccessfulSend
    /\ Cardinality(captured) = batchSize
    /\ Len(sink) = 1
    /\ Len(sink[1].keystroke_data) = batchSize - 1
    /\ Len(sink[1].scroll_data) = 1
    /\ Len(sink[1].mouse_data) = 0
    /\ ~hasData(World)

\* C18: after a failed send that leaves the monitor active with data
\* buffered, another send is started (sends counts them), unless monitoring
\* is stopped or the buffer is emptied first.
C18_FailedSendIsRetried ==
    \A n \in 0..(MaxSends - 1) :
        (FailedSend /\ isMonitoring /\ hasData(World) /\ sends = n)
            ~> (sends > n \/ ~isMonitoring \/ ~hasData(World))

C18_Witness ==
    /\ last.op = "batchTimer"
    /\ last.out = "monitoring"
    /\ sends > 1
    /\ Len(inflight) = 1
    /\ sink = <<>>
    /\ hasData(World)

\* The limit initEventListeners gives the wrapper of each throttled type.
LimitOf(k) == IF k = "mousemove" THEN MouseMoveLimit ELSE ScrollLimit

\* The capture of this step appended an event of throttled type k.
Forwarded(k) ==
    /\ last'.op = "capture"
    /\ Event(nextId, k) \in Buffered(World)'

\* C19: a throttled listener forwards a call only when its window is
\* closed, and that call opens a window of the wrapper's limit; a call
\* inside the window changes nothing (it is not queued), and the end of
\* the window only reopens the wrapper (nothing is replayed).  While
\* monitoring, every call outside a window is forwarded at once.
C19_ThrottleDropsInsideWindow ==
    [][/\ \A k \in ThrottledTypes :
              /\ Forwarded(k) =>
                    /\ ~inThrottle[k]
                    /\ TimersOf(timers, k) = {}
                    /\ inThrottle'[k]
                    /\ TimersOf(timers', k) =
                          {[id |-> 1, kind |-> k, left |-> LimitOf(k)]}
              /\ inThrottle'[k] <=> TimersOf(timers', k) # {}
       /\ (last'.op = "capture" /\ last'.out = "throttled") =>
              UNCHANGED <<keystrokeData, mouseData, scrollData, batchSize,
                          isMonitoring, batchTimer, inThrottle, timers,
                          inflight, sink, captured>>
       /\ (last'.op = "capture" /\ isMonitoring) =>
              last'.out \in {"appended", "throttled"}
       /\ last'.op = "throttleTimer" =>
              /\ UNCHANGED <<keystrokeData, mouseData, scrollData, inflight,
                             batchTimer, captured>>
              /\ inThrottle[last'.out] /\ ~inThrottle'[last'.out]]_vars

C19_Witness ==
    /\ last.op = "capture"
    /\ last.out = "throttled"
    /\ nextId = 4
    /\ captured = {Event(1, "scroll")}
    /\ scrollData = <<Event(1, "scroll")>>
    /\ TimersOf(timers, "scroll") = {[id |-> 1, kind |-> "scroll",
                                      left |-> ScrollLimit - 1]}

\* The sends logout listeners are awaiting that are still pending.
AwaitedCount(fl) == Cardinality({i \in 1..Len(fl) : fl[i].awaited})

\* Logout listeners that have not yet reached their stopMonitoring: those
\* waiting for their sendBatch and those about to be resumed.
LogoutsOpen == AwaitedCount(inflight) + resumes

\* C20: the logout listener calls stopMonitoring only once the sendBatch it
\* awaits has returned, whatever the outcome of the send: the click itself
\* does not stop monitoring and leaves one listener waiting, a listener is
\* resumed only by the return of the send it awaits and then runs before
\* anything else, and the resumed listener leaves isMonitoring false.
C20_LogoutFlushesThenStops ==
    [][/\ last'.op = "logoutClick" =>
              /\ isMonitoring' = isMonitoring
              /\ LogoutsOpen' = LogoutsOpen + 1
       /\ last'.op \notin {"logoutClick", "logoutResume"} =>
              /\ LogoutsOpen' = LogoutsOpen
              /\ resumes' > resumes => last'.op \in {"getSession", "insert"}
       /\ resumes > 0 => last'.op = "logoutResume"
       /\ last'.op = "logoutResume" =>
              /\ resumes > 0
              /\ resumes' = resumes - 1
              /\ inflight' = inflight
              /\ ~isMonitoring'
       /\ (isMonitoring /\ ~isMonitoring') => last'.op = "logoutResume"]_vars

C20_Witness ==
    /\ last.op = "logoutResume"
    /\ ~isMonitoring
    /\ logouts = 1
    /\ sends = 1
    /\ Len(sink) = 1
    /\ inflight = <<>>
    /\ BatchTimers(timers) = {}

\* C21: every accepted capture that leaves the total below batchSize ends
\* with exactly one idle timer pending, with the whole of batchInterval
\* ahead; the time an idle timer has left changes only by the passing of
\* time, one unit at a time, unless the timer is cancelled, replaced by a
\* fresh one or fires; and the timer whose callback runs has no time left.
\* A flush made by the timer is thus a whole batchInterval after the last
\* capture or flush decision.
C21_QuietPeriodTimer ==
    [][/\ (AcceptedCapture' /\ TotalEvents(World)' < batchSize) =>
              FreshlyArmed(timers', batchTimer')
       /\ last'.op = "tick" =>
              BatchTimers(timers') =
                  {[t EXCEPT !.left = @ - 1] : t \in BatchTimers(timers)}
       /\ last'.op = "batchTimer" =>
              \E t \in BatchTimers(timers) : t.left = 0 /\ t \notin timers'
       /\ (last'.op # "tick" /\ BatchTimers(timers') # BatchTimers(timers)) =>
              \/ BatchTimers(timers') = {}
              \/ FreshlyArmed(timers', batchTimer')]_vars

C21_Witness ==
    /\ AcceptedCapture
    /\ TotalEvents(World) = batchSize - 1
    /\ FreshlyArmed(timers, batchTimer)
    /\ \E t \in TimersOf(timers, "scroll") : t.left < ScrollLimit

\* The events of a pending send's batch.
EventsOf(b) ==
    {b.keystroke_events[i] : i \in 1..Len(b.keystroke_events)}
        \cup {b.mouse_events[i] : i \in 1..Len(b.mouse_events)}
        \cup {b.scroll_events[i] : i \in 1..Len(b.scroll_events)}

\* C22: when a send fails and no other send is pending, every event of the
\* failed batch is still in the buffer (or at least was stored by the sink
\* already); as long as no send is pending the buffer only grows at its
\* end; and the next send that starts carries the whole buffer.  The batch
\* of the next attempt thus contains the failed batch, in order, followed
\* by what was captured since.
C22_RetryCarriesFailedBatch ==
    [][/\ (FailedSend' /\ inflight' = <<>>) =>
              /\ Len(inflight) = 1
              /\ \A e \in EventsOf(inflight[1]) :
                    \/ e \in Buffered(World)'
                    \/ \E r \in 1..Len(sink') : InBatch(e, sink'[r])
       /\ inflight = <<>> =>
              /\ OnlyAppended
              /\ inflight' # <<>> =>
                    /\ Len(inflight') = 1
                    /\ SnapshotOf(inflight'[1]) =
                          Snapshot(keystrokeData', mouseData', scrollData')]_vars

\* C23: whenever isMonitoring is false no idle flush timer is pending.
C23_NoTimerWhileStopped ==
    ~isMonitoring => BatchTimers(timers) = {}

\* The events of a stored row.
Delivered(row) ==
    {row.keystroke_data[i] : i \in 1..Len(row.keystroke_data)}
        \cup {row.mouse_data[i] : i \in 1..Len(row.mouse_data)}
        \cup {row.scroll_data[i] : i \in 1..Len(row.scroll_data)}

\* C24: no captured event is in two rows the sink has stored.
C24_NoDuplicateDelivery ==
    \A r1, r2 \in 1..Len(sink) :
        r1 # r2 =>
            Delivered(sink[r1]) \cap Delivered(sink[r2]) \cap captured = {}

SessionIntervals(ts) == {t \in ts : t.kind = "sessionInterval"}

\* C25: authHandler.init has run at most once on the page, so at most one
\* session-check interval is pending and at most one visibilitychange
\* listener is registered.
C25_InitAtMostOnce ==
    /\ inits <= 1
    /\ Cardinality(SessionIntervals(authTimers)) <= 1
    /\ visibilityListeners <= 1
====
